---- MODULE Spec2Model ----
(***************************************************************************)
(* The two TuneMPC example scripts, examples/unicycle/main.py and          *)
(* examples/evaporation_process/main.py, as one state machine.             *)
(*                                                                         *)
(* pc is the position of the interpreter: the line number of the next      *)
(* statement, plus 1000 for every call of that statement that has already  *)
(* returned (0 once the interpreter has exited).  Real numbers are in      *)
(* fixed point with six decimals: 1.0 is Unit.                             *)
(* The library (tunempc) and the numerical back end (casadi) are not part  *)
(* of the two scripts: their answers are deterministic functions taken     *)
(* from small families, the member of the family being fixed in env.       *)
(***************************************************************************)
EXTENDS Integers, Sequences, FiniteSets, TLC

VARIABLES
    script,   \* which of the two scripts runs
    env,      \* the library's behaviour during this run: [ocp, gain]
    pc,       \* position of the next step, 0 after exit
    fault,    \* name of the call whose exception is propagating, "" if none
    calls,    \* completed invocations of every function the scripts call
    data,     \* the problem-data dict (key -> value), <<>> while it does not exist
    opts,     \* the mpc options dict, a set of <<key, value>>
    tuningTn, \* the custom tracking tuning dict, a set of <<key, value>>
    w0,       \* the initial guess: [x, u] in unicycle, a vector in evaporation, <<>> before
    ctrl,     \* the three controller objects, by variant
    heap,     \* numeric vector objects: 1..N hold wsol['x',i], the rest are free-standing
    xinit,    \* x_initE, x_initTn, x_initTt: address of the vector each name is bound to
    k,        \* the loop variable of the simulation loop, -1 before the loop
    dist,     \* the local dist of the disturbance block
    uLog,     \* uE, uTn, uTt
    lLog,     \* lE, lTn, lTt
    lOpt,     \* the reference stage cost of the current step
    tgrid,    \* the plotting time grid
    qry,      \* last call of each controller's step: [kk, x, u, y], y the value returned
    rec,      \* last call of the cost function for each controller: [kk, x, u, y]
    adv,      \* last call of plant_sim for each controller: [kk, x, u, y]
    applied,  \* the perturbations applied to each tracked state: <<k, amount>>
    it,       \* items the iterator of the running for statement over range(...) has
              \* yielded (the loop of line 112, the plotting loops), 0 when none runs
    fig       \* the series drawn so far: <<figure, controller, values>>

vars == <<script, env, pc, fault, calls, data, opts, tuningTn, w0, ctrl, heap, xinit,
          k, dist, uLog, lLog, lOpt, tgrid, qry, rec, adv, applied, it, fig>>

-----------------------------------------------------------------------------
(* Bounds of the model *)

\* the optimal-control solver returns one of OcpMax+1 solutions
OcpMax == 1
\* the controllers use one of GainMax+1 feedback gains
GainMax == 1

-----------------------------------------------------------------------------
(* Program constants *)

\* 1.0 in fixed point
Unit == 1000 * 1000

T == 5
N == 30
\* number_of_finite_elements of the integrator
NFE == 50
NEvap == 200
PEvap == 1
Nsim == 250
dist_z == <<Unit \div 10, Unit \div 10, Unit \div 2, Unit \div 2>>
Nstep == <<0, 34, 69, 105>>
\* alpha of the evaporation script: 0.1, 0.5, 1.0
alpha == <<Unit \div 10, Unit \div 2, Unit>>
\* data['v'] and 1/data['rho'] of the unicycle
V == 1
RhoInv == 1000
\* nu = u.shape[0] of each script
nu(s) == IF s = "unicycle" THEN 1 ELSE 2

Scripts == {"unicycle", "evaporation"}
Variants == <<"economic", "tracking", "tuned">>
C == {Variants[i] : i \in 1..3}

\* the horizon each script passes to create_mpc
Horizon(s) == IF s = "unicycle" THEN N ELSE NEvap
\* the period each script passes to Tuner
Period(s) == IF s = "unicycle" THEN N ELSE PEvap

\* the functions whose completed calls are counted; plt counts every pyplot call
CallNames == {"vars", "problem_data", "intermediate_vars", "dynamics", "objective",
              "constraints", "Tuner", "w0", "solve_ocp", "convexify",
              "get_sensitivities", "create_mpc", "step", "l", "plant_sim",
              "check_equivalence", "plt"}

-----------------------------------------------------------------------------
(* Small helpers *)

Range(seq) == {seq[i] : i \in 1..Len(seq)}
IndexOf(seq, v) == CHOOSE i \in 1..Len(seq) : seq[i] = v
Last(seq) == seq[Len(seq)]

\* n/d rounded to the nearest integer, d > 0
Round(n, d) == (2 * n + d) \div (2 * d)

\* the product of two fixed-point numbers, rounded to the nearest; the factors
\* are split at 10^3 so that no intermediate value leaves 32 bits
Mul(a, b) ==
    LET ah == a \div 1000
        al == a % 1000
        bh == b \div 1000
        bl == b % 1000
    IN  ah * bh + Round(ah * bl + al * bh + Round(al * bl, 1000), 1000)

-----------------------------------------------------------------------------
(* Problem data *)

\* unicycle problemData(): two constants
problemData ==
    [key \in {"rho", "v"} |-> IF key = "rho" THEN "0.001" ELSE "1"]

EvapConstants ==
    << <<"a", "0.5616">>, <<"b", "0.3126">>, <<"c", "48.43">>, <<"d", "0.507">>,
       <<"e", "55.0">>, <<"f", "0.1538">>, <<"g", "90.0">>, <<"h", "0.16">>,
       <<"M", "20.0">>, <<"C", "4.0">>, <<"UA2", "6.84">>, <<"Cp", "0.07">>,
       <<"lam", "38.5">>, <<"lams", "36.6">>, <<"F1", "10.0">>, <<"X1", "5.0">>,
       <<"F3", "50.0">>, <<"T1", "40.0">>, <<"T200", "25.0">> >>

\* evaporation problem_data(): nineteen constants
problem_data ==
    [key \in {EvapConstants[i][1] : i \in 1..Len(EvapConstants)} |->
        EvapConstants[IndexOf([i \in 1..Len(EvapConstants) |-> EvapConstants[i][1]], key)][2]]

\* the assignments of intermediate_vars, lines 76 to 85 in this order
EvapIntermediates ==
    << <<"T2", "a*P2 + b*X2 + c">>, <<"T3", "d*P2 + e">>, <<"T100", "f*P100 + g">>,
       <<"UA1", "h*(F1+F3)">>, <<"Q100", "UA1*(T100 - T2)">>, <<"F100", "Q100/lams">>,
       <<"Q200", "UA2*(T3-T200)/(1.0 + UA2/(2.0*Cp*F200))">>, <<"F5", "Q200/lam">>,
       <<"F4", "(Q100-F1*Cp*(T2-T1))/lam">>, <<"F2", "F1 - F4">> >>

IntermediateKeys == {EvapIntermediates[i][1] : i \in 1..Len(EvapIntermediates)}

\* the first and the last line of the body of intermediate_vars
IvFirst == 76
IvLast == 85

\* d with d[key] = val, whether or not key is there already
Store(d, key, val) ==
    [q \in DOMAIN d \cup {key} |-> IF q = key THEN val ELSE d[q]]

\* a mutated intermediate_vars whose last assignment goes to F1 as well
intermediate_vars_overwrite(d, ln) ==
    LET e == EvapIntermediates[ln - IvFirst + 1]
        w == Store(d, e[1], e[2])
    IN  IF ln = IvLast THEN Store(w, "F1", e[2]) ELSE w

\* the assignment on line ln of intermediate_vars(x, u, data): it writes one
\* derived entry into the dict the function was given
intermediate_vars(d, ln) ==
    LET e == EvapIntermediates[ln - IvFirst + 1]
    IN  Store(d, e[1], e[2])

-----------------------------------------------------------------------------
(* Numerics of the unicycle *)

\* the initial guess of lines 103-113 for i = 0..N-1
z0 == <<0, 165451, 323671, 467745, 591376, 689161,
        756827, 791415, 791415, 756827, 689161, 591376,
        467745, 323671, 165451, 0, -165451, -323671,
        -467745, -591376, -689161, -756827, -791415, -791415,
        -756827, -689161, -591376, -467745, -323671, -165451>>
y0 == <<-795775, -778385, -726976, -643795, -532477, -397887,
        -245908, -83181, 83181, 245908, 397887, 532477,
        643795, 726976, 778385, 795775, 778385, 726976,
        643795, 532477, 397887, 245908, 83181, -83181,
        -245908, -397887, -532477, -643795, -726976, -778385>>
ez0 == <<1000000, 978148, 913545, 809017, 669131, 500000,
         309017, 104528, -104528, -309017, -500000, -669131,
         -809017, -913545, -978148, -1000000, -978148, -913545,
         -809017, -669131, -500000, -309017, -104528, 104528,
         309017, 500000, 669131, 809017, 913545, 978148>>
ey0 == <<0, 207912, 406737, 587785, 743145, 866025,
         951057, 994522, 994522, 951057, 866025, 743145,
         587785, 406737, 207912, 0, -207912, -406737,
         -587785, -743145, -866025, -951057, -994522, -994522,
         -951057, -866025, -743145, -587785, -406737, -207912>>
\* w0['u'] = 2*pi/T
u0 == 1256637

\* the periodic solution solve_ocp returns: stage i of member o of the family
\* is the circle of the initial guess moved by o/20 along z
XRef(o, i) == <<z0[i + 1] + o * (Unit \div 20), y0[i + 1], ez0[i + 1], ey0[i + 1]>>
URef(o, i) == u0

\* the stage cost u^2 + z^2 + 5 y^2
l(x, u) == Mul(u, u) + Mul(x[1], x[1]) + 5 * Mul(x[2], x[2])

\* the state derivative of dynamics()
xdot(x, u) ==
    LET inv == Mul(x[3], x[3]) + Mul(x[4], x[4]) - Unit
    IN  << V * x[3],
           V * x[4],
           0 - Mul(u, x[4]) - Round(Mul(x[3], inv), RhoInv),
           Mul(u, x[3]) - Round(Mul(x[4], inv), RhoInv) >>

\* the only element of a one-element set
The(s) == CHOOSE y \in s : TRUE

\* the vector with components F(1) .. F(4)
Vec(F(_)) == <<F(1), F(2), F(3), F(4)>>

\* x + a*d/b, componentwise
Lin(x, d, a, b) == Vec(LAMBDA i : x[i] + Round(d[i] * a, b))

\* the slope at x + a*d/b
Slope(x, d, a, b, u) == The({xdot(y, u) : y \in {Lin(x, d, a, b)}})

\* one step of the classical Runge-Kutta scheme with step a/b from x under the
\* constant control u: the new state and what rounding left of the increment,
\* r being what it left of the steps before
RkStep(x, r, u, a, b, k1, k2, k3, k4) ==
    The({The({<<Vec(LAMBDA i : x[i] + inc[i]), Vec(LAMBDA i : tot[i] - inc[i] * 6 * b)>> :
                inc \in {Vec(LAMBDA i : Round(tot[i], 6 * b))}}) :
           tot \in {Vec(LAMBDA i : (k1[i] + 2 * k2[i] + 2 * k3[i] + k4[i]) * a + r[i])}})

\* the four slopes k1..k4 of the step, each evaluated once
Rk4(x, r, u, a, b) ==
    The({The({The({The({RkStep(x, r, u, a, b, k1, k2, k3, k4) :
                          k4 \in {Slope(x, k3, a, b, u)}}) :
                     k3 \in {Slope(x, k2, a, 2 * b, u)}}) :
                k2 \in {Slope(x, k1, a, 2 * b, u)}}) :
           k1 \in {xdot(x, u)}})

\* n steps of the scheme from s = <<state, rest>>: the first n/2 of them, then
\* the others
RECURSIVE rk(_, _, _, _, _)
rk(s, u, a, b, n) ==
    IF n = 0 THEN s
    ELSE IF n = 1 THEN Rk4(s[1], s[2], u, a, b)
    ELSE The({rk(m, u, a, b, n - (n \div 2)) : m \in {rk(s, u, a, b, n \div 2)}})

\* plant_sim = dynamics(x, u, data, h = T/N): the integrator 'rk' over tf = T/N
\* in NFE finite elements, called with x0 = x and p = u; its result 'xf'
plant_sim(x, u) == rk(<<x, <<0, 0, 0, 0>> >>, u, T, N * NFE, NFE)[1]

\* the feedback gains of each variant, for member g of the family
Gain(variant, g) == IF variant = "tracking" THEN 2 + g ELSE 1 + g
HeadingGain(variant) == IF variant = "tuned" THEN 3 ELSE 2

\* ctrl.step(x): the control a controller of this variant returns on its
\* n-th call (n counted from 0) for state x: the reference control corrected
\* by the lateral and the heading deviation from the reference stage
StepResp(variant, e, n, x) ==
    LET i == n % N
        r == XRef(e.ocp, i)
        lat == Mul(x[2] - r[2], r[3]) - Mul(x[1] - r[1], r[4])
        head == Mul(x[3], r[4]) - Mul(x[4], r[3])
    IN  URef(e.ocp, i) - Gain(variant, e.gain) * lat + HeadingGain(variant) * head

\* log[j]['u'][name][0][i] of check_equivalence: the first control of
\* controller c from the initial state moved by alpha[j], component i
EquivLog(e, c, j, i) ==
    (IF i = 0 THEN 191713 ELSE 215888) * 1000
      + Mul(alpha[j], (e.ocp + Gain(c, e.gain)) * Unit)

\* the index of the reference stage used at step j
RefIndexShifted(j) == (j + 1) % N
RefIndex(j) == j % N

-----------------------------------------------------------------------------
(* The heap of numeric vectors *)

Free == <<>>
WsolAddr(i) == i + 1
Cells == 1..(N + 4)
Dyn == (N + 1)..(N + 4)
FreshCell(h) == CHOOSE a \in Dyn : h[a] = Free /\ \A b \in Dyn : h[b] = Free => a <= b

\* wsol['x', i]: a new vector holding a copy of stage i.  The indexing of the
\* solution structure is library code; that it copies is an assumption
GetItem(h, i) ==
    LET a == FreshCell(h)
    IN  [addr |-> a, heap |-> [h EXCEPT ![a] = h[WsolAddr(i)]]]

\* the value of the vector a name is bound to
Val(c) == heap[xinit[c]]

-----------------------------------------------------------------------------
(* Program order *)

\* statement ln after j of its calls have returned
Pos(ln, j) == ln + 1000 * j

\* the unicycle loop body with the plant advance moved before the cost recording
UniBodyAdvanceFirst ==
    <<161, 162, 163, 164, 165, 167, 168, 169, 171, 177, 178, 179,
      172, Pos(172, 1), 173, Pos(173, 1), 174, Pos(174, 1)>>

\* the unicycle script creating its first controller before convexify
UniSolveCreateEarly ==
    <<114, 116, 121, 124, 134, 135, 117, 118,
      138, 139, 142, 145, 152, 153, 154, 155, 157>>

\* steps of the unicycle script up to the loop that fills the initial guess:
\* line 96 calls dynamics, then objective, then Tuner
UniSetup == <<91, 92, 94, 96, Pos(96, 1), Pos(96, 2), 103, 111>>
\* the loop statement that fills the initial guess and its body: line 113
\* calls vertcat, then stores the value into w0
UniGuess == 112
UniGuessBody == <<113, Pos(113, 1)>>
\* steps from the end of that loop to the simulation loop
UniSolve ==
    <<114, 116, 117, 118, 121, 124, 134, 135,
      138, 139, 142, 145, 152, 153, 154, 155, 157>>
\* the loop statement
UniLoop == 159
\* the steps of the loop body: lines 172 to 174 call tuner.l, then subtract
\* lOpt from its value and append
UniBody ==
    <<161, 162, 163, 164, 165, 167, 168, 169, 171,
      172, Pos(172, 1), 173, Pos(173, 1), 174, Pos(174, 1), 177, 178, 179>>
\* the plotting loop statement and its body, the statements after it
UniPlot == 182
UniPlotBody == <<183, 184, 185, 186, 187, 188>>
UniTail == <<190, 191, 192, 193, 194, 195, 197>>

\* steps of the evaporation script before its plots: line 143 calls
\* problem_data and runs the body of intermediate_vars (76 to 85, return on
\* 87); line 147 calls dynamics, objective, constraints, then Tuner; line 178
\* calls objective, then check_equivalence
EvapProg ==
    <<142, 143, 76, 77, 78, 79, 80, 81, 82, 83, 84, 85, 87, 144,
      147, Pos(147, 1), Pos(147, 2), Pos(147, 3),
      155, 156, 157, 163, 167, 168, 171, 172, 175, 178, Pos(178, 1)>>
EvapPlot == 181
EvapPlotBody == <<183, 184, 185>>
EvapShow == 187

NextIn(seq, ln) ==
    LET i == IndexOf(seq, ln) IN IF i = Len(seq) THEN 0 ELSE seq[i + 1]

\* the step executed after step ln completes normally (0: exit)
After(s, ln) ==
    IF s = "evaporation" THEN
        IF ln \in Range(EvapProg) THEN NextIn(EvapProg \o <<EvapPlot>>, ln)
        ELSE IF ln \in Range(EvapPlotBody) THEN NextIn(EvapPlotBody \o <<EvapPlot>>, ln)
        ELSE 0
    ELSE IF ln \in Range(UniSetup) THEN NextIn(UniSetup \o <<UniGuess>>, ln)
    ELSE IF ln \in Range(UniGuessBody) THEN NextIn(UniGuessBody \o <<UniGuess>>, ln)
    ELSE IF ln \in Range(UniSolve) THEN NextIn(UniSolve \o <<UniLoop>>, ln)
    ELSE IF ln \in Range(UniBody) THEN NextIn(UniBody \o <<UniLoop>>, ln)
    ELSE IF ln \in Range(UniPlotBody) THEN NextIn(UniPlotBody \o <<UniPlot>>, ln)
    ELSE IF ln \in Range(UniTail) THEN NextIn(UniTail, ln)
    ELSE 0

FirstLine(s) == IF s = "unicycle" THEN UniSetup[1] ELSE EvapProg[1]

\* by variant: 1, 2, 3
Ord(c) == IndexOf(Variants, c)

\* the lines of the three per-controller statements of each phase
CreateLine(s, c) ==
    IF s = "unicycle"
    THEN (IF c = "economic" THEN 135 ELSE IF c = "tracking" THEN 139 ELSE 142)
    ELSE (IF c = "economic" THEN 168 ELSE IF c = "tracking" THEN 172 ELSE 175)
XInitLine(c) == 151 + Ord(c)
DistLine(c) == 162 + Ord(c)
StepLine(c) == 166 + Ord(c)
CostLine(c) == 171 + Ord(c)
SimLine(c) == 176 + Ord(c)
PlotULine(c) == 183 + Ord(c)
PlotLLine(c) == 190 + Ord(c)

\* the calls into library code a step makes, each of which may raise; a step
\* with several of them changes nothing before the last has returned.  The
\* operators of library objects are named add, sub, mul, div, their item
\* accesses getitem (read) and setitem (write), and a read of one of their
\* attributes by the attribute (x.shape, w0.cat, tuner.pocp, tuner.sys); a
\* method call obj.m(...) is named m, which covers looking m up and calling it
CallAt(s, ln) ==
    IF s = "unicycle" THEN
        CASE ln = 91 -> {"vars"}
          [] ln = 92 -> {"shape"}
          [] ln = 96 -> {"dynamics"}
          [] ln = Pos(96, 1) -> {"objective"}
          [] ln = Pos(96, 2) -> {"Tuner"}
          [] ln = 103 -> {"numpy"}
          [] ln = 111 -> {"pocp", "w0"}
          [] ln = 113 -> {"vertcat"}
          [] ln = Pos(113, 1) -> {"setitem"}
          [] ln = 114 -> {"setitem"}
          [] ln = 116 -> {"cat", "solve_ocp"}
          [] ln = 117 -> {"convexify"}
          [] ln = 118 -> {"pocp", "get_sensitivities"}
          [] ln = 121 -> {"sys"}
          [] ln = 124 -> {"getitem", "Function"}
          [] ln = 138 -> {"numpy"}
          [] ln \in {135, 139, 142} -> {"create_mpc"}
          [] ln \in {152, 153, 154} -> {"getitem"}
          [] ln = 155 -> {"dynamics"}
          [] ln \in {163, 164, 165} -> {"getitem", "add", "setitem"}
          [] ln \in {167, 168, 169} -> {"step"}
          [] ln = 171 -> {"getitem", "l"}
          [] ln \in {172, 173, 174} -> {"l"}
          [] ln \in {Pos(172, 1), Pos(173, 1), Pos(174, 1)} -> {"sub"}
          [] ln \in {177, 178, 179} -> {"plant_sim"}
          [] ln \in {184, 185, 186} -> {"getitem", "sub", "plt"}
          [] ln \in {183, 187, 188, 190, 191, 192, 193, 194, 195, 197} -> {"plt"}
          [] OTHER -> {}
    ELSE
        CASE ln = 142 -> {"vars"}
          [] ln = 144 -> {"shape"}
          [] ln \in {76, 77, 78} -> {"getitem", "mul", "add"}
          [] ln = 80 -> {"sub", "mul"}
          [] ln \in {81, 83} -> {"div"}
          [] ln = 82 -> {"getitem", "sub", "mul", "div", "add"}
          [] ln = 84 -> {"sub", "mul", "div"}
          [] ln = 85 -> {"sub"}
          [] ln = 147 -> {"dynamics"}
          [] ln = Pos(147, 1) -> {"objective"}
          [] ln = Pos(147, 2) -> {"constraints"}
          [] ln = Pos(147, 3) -> {"Tuner"}
          [] ln = 155 -> {"vertcat"}
          [] ln = 156 -> {"solve_ocp"}
          [] ln = 157 -> {"convexify"}
          [] ln = 163 -> {"pocp", "get_sensitivities"}
          [] ln = 167 -> {"sys"}
          [] ln = 171 -> {"numpy"}
          [] ln \in {168, 172, 175} -> {"create_mpc"}
          [] ln = 178 -> {"objective"}
          [] ln = Pos(178, 1) -> {"getitem", "vertcat", "check_equivalence"}
          [] ln = 184 -> {"getitem", "plt"}
          [] ln \in {183, 185, 187} -> {"plt"}
          [] OTHER -> {}

\* a mutated fault path that runs the failed statement again
OnFaultRetry(ln) == ln

\* where control goes when a call raises: neither script has a try statement,
\* so the exception leaves the module and the interpreter exits
OnFault(ln) == 0

-----------------------------------------------------------------------------
(* Script state *)

NoCall(y) == [kk |-> 0 - 1, x |-> <<>>, u |-> 0, y |-> y]
NoCtrl == [id |-> 0, N |-> 0, opts |-> {}, tuning |-> {}, nsteps |-> 0]

Init ==
    /\ script \in Scripts
    /\ env \in [ocp : 0..OcpMax, gain : 0..GainMax]
    /\ pc = FirstLine(script)
    /\ fault = ""
    /\ calls = [f \in CallNames |-> 0]
    /\ data = <<>>
    /\ opts = {}
    /\ tuningTn = {}
    /\ w0 = <<>>
    /\ ctrl = [c \in C |-> NoCtrl]
    /\ heap = [a \in Cells |-> Free]
    /\ xinit = [c \in C |-> 0]
    /\ k = 0 - 1
    /\ dist = 0
    /\ uLog = [c \in C |-> <<>>]
    /\ lLog = [c \in C |-> <<>>]
    /\ lOpt = 0
    /\ tgrid = <<>>
    /\ qry = [c \in C |-> NoCall(0)]
    /\ rec = [c \in C |-> NoCall(0)]
    /\ adv = [c \in C |-> NoCall(<<>>)]
    /\ applied = [c \in C |-> <<>>]
    /\ it = 0
    /\ fig = {}

At(lu, le) ==
    \/ script = "unicycle" /\ pc = lu
    \/ script = "evaporation" /\ pc = le

Goto == pc' = After(script, pc)

Called(fs) == calls' = [f \in CallNames |-> IF f \in fs THEN calls[f] + 1 ELSE calls[f]]

loopVars == <<k, dist, uLog, lLog, lOpt, tgrid, qry, rec, adv, applied, it, fig>>
setupVars == <<data, opts, tuningTn, w0, ctrl>>

-----------------------------------------------------------------------------
(* Set-up statements *)

\* x, u = vars()
Vars ==
    /\ At(91, 142)
    /\ Goto /\ Called({"vars"})
    /\ UNCHANGED <<script, env, fault, setupVars, heap, xinit, loopVars>>

\* nx = x.shape[0]; nu = u.shape[0]
Shapes ==
    /\ At(92, 144)
    /\ Goto
    /\ UNCHANGED <<script, env, fault, calls, setupVars, heap, xinit, loopVars>>

\* data = problemData()   /   the call problem_data() of line 143
ProblemData ==
    /\ At(94, 143)
    /\ data' = IF script = "unicycle" THEN problemData ELSE problem_data
    /\ Goto /\ Called({"problem_data"})
    /\ UNCHANGED <<script, env, fault, opts, tuningTn, w0, ctrl, heap, xinit, loopVars>>

\* one assignment data[...] = ... of the body of intermediate_vars
IntermediateVars ==
    /\ script = "evaporation" /\ pc \in IvFirst..IvLast
    /\ data' = intermediate_vars(data, pc)
    /\ Goto
    /\ UNCHANGED <<script, env, fault, calls, opts, tuningTn, w0, ctrl, heap, xinit, loopVars>>

\* return data, and the binding data = ... of line 143
IntermediateReturn ==
    /\ At(0 - 1, 87)
    /\ Goto /\ Called({"intermediate_vars"})
    /\ UNCHANGED <<script, env, fault, setupVars, heap, xinit, loopVars>>

\* f = dynamics(x, u, data [, h = T/N]), an argument of Tuner
TunerDynamics ==
    /\ At(96, 147)
    /\ Goto /\ Called({"dynamics"})
    /\ UNCHANGED <<script, env, fault, setupVars, heap, xinit, loopVars>>

\* l = objective(x, u, data), an argument of Tuner
TunerObjective ==
    /\ At(Pos(96, 1), Pos(147, 1))
    /\ Goto /\ Called({"objective"})
    /\ UNCHANGED <<script, env, fault, setupVars, heap, xinit, loopVars>>

\* h = constraints(x, u, data), an argument of Tuner in evaporation
TunerConstraints ==
    /\ At(0 - 1, Pos(147, 2))
    /\ Goto /\ Called({"constraints"})
    /\ UNCHANGED <<script, env, fault, setupVars, heap, xinit, loopVars>>

\* tuner = tunempc.Tuner(f = ..., l = ..., [h = ...,] p = ...)
MakeTuner ==
    /\ At(Pos(96, 2), Pos(147, 3))
    /\ Goto /\ Called({"Tuner"})
    /\ UNCHANGED <<script, env, fault, setupVars, heap, xinit, loopVars>>

\* t, ez0, ey0, inv, z0, y0: the tables of the initial guess
GuessTables ==
    /\ At(103, 0 - 1)
    /\ Goto
    /\ UNCHANGED <<script, env, fault, calls, setupVars, heap, xinit, loopVars>>

\* w0 = tuner.pocp.w(0.0): the structure of the guess, every entry 0.0
InitialGuess ==
    /\ At(111, 0 - 1)
    /\ w0' = [x |-> [i \in 1..N |-> <<0, 0, 0, 0>>], u |-> [i \in 1..N |-> 0]]
    /\ Goto /\ Called({"w0"})
    /\ UNCHANGED <<script, env, fault, data, opts, tuningTn, ctrl, heap, xinit, loopVars>>

\* for i in range(N):
GuessLoop ==
    /\ At(UniGuess, 0 - 1)
    /\ IF it < N THEN it' = it + 1 /\ pc' = UniGuessBody[1]
                 ELSE it' = 0 /\ pc' = UniSolve[1]
    /\ UNCHANGED <<script, env, fault, calls, setupVars, heap, xinit,
                   k, dist, uLog, lLog, lOpt, tgrid, qry, rec, adv, applied, fig>>

\* ct.vertcat(z0[i], y0[i], ez0[i], ey0[i]), the value line 113 stores
GuessState ==
    /\ At(113, 0 - 1)
    /\ Goto
    /\ UNCHANGED <<script, env, fault, calls, setupVars, heap, xinit, loopVars>>

\* w0['x',i] = <the value vertcat returned>
GuessSetState ==
    /\ At(Pos(113, 1), 0 - 1)
    /\ w0' = [w0 EXCEPT !.x[it] = <<z0[it], y0[it], ez0[it], ey0[it]>>]
    /\ Goto
    /\ UNCHANGED <<script, env, fault, calls, data, opts, tuningTn, ctrl, heap, xinit,
                   loopVars>>

\* w0['u'] = 2*np.pi/T: every control of the guess
GuessControl ==
    /\ At(114, 0 - 1)
    /\ w0' = [w0 EXCEPT !.u = [i \in 1..N |-> u0]]
    /\ Goto
    /\ UNCHANGED <<script, env, fault, calls, data, opts, tuningTn, ctrl, heap, xinit,
                   loopVars>>

\* w0 = ca.vertcat(*[25.0, 49.743, 191.713, 215.888])
GuessVector ==
    /\ At(0 - 1, 155)
    /\ w0' = <<25 * Unit, 49743 * 1000, 191713 * 1000, 215888 * 1000>>
    /\ Goto
    /\ UNCHANGED <<script, env, fault, calls, data, opts, tuningTn, ctrl, heap, xinit,
                   loopVars>>

\* the vectors wsol holds once solve_ocp has returned
Solution(s, o) ==
    [a \in Cells |->
        IF a <= Period(s)
        THEN (IF s = "unicycle" THEN XRef(o, a - 1)
              ELSE <<25 * Unit + o * (Unit \div 20), 49743 * 1000>>)
        ELSE Free]

\* wsol = tuner.solve_ocp(w0)
SolveOcp ==
    /\ At(116, 156)
    /\ heap' = Solution(script, env.ocp)
    /\ Goto /\ Called({"solve_ocp"})
    /\ UNCHANGED <<script, env, fault, setupVars, xinit, loopVars>>

\* Hc = tuner.convexify(...)
Convexify ==
    /\ At(117, 157)
    /\ Goto /\ Called({"convexify"})
    /\ UNCHANGED <<script, env, fault, setupVars, heap, xinit, loopVars>>

\* [H, q, _, _, _] = tuner.pocp.get_sensitivities()
GetSensitivities ==
    /\ At(118, 163)
    /\ Goto /\ Called({"get_sensitivities"})
    /\ UNCHANGED <<script, env, fault, setupVars, heap, xinit, loopVars>>

\* sys = tuner.sys
TunerSys ==
    /\ At(121, 167)
    /\ Goto
    /\ UNCHANGED <<script, env, fault, calls, setupVars, heap, xinit, loopVars>>

\* opts = {}; opts['p_operator'] = ca.Function(...); ctrls = {}
MpcOptions ==
    /\ At(124, 0 - 1)
    /\ opts' = {<<"p_operator", "x[0:3]">>}
    /\ Goto
    /\ UNCHANGED <<script, env, fault, calls, data, tuningTn, w0, ctrl, heap, xinit, loopVars>>

\* opts['ipopt_presolve'] = True
Presolve ==
    /\ At(134, 0 - 1)
    /\ opts' = {p \in opts : p[1] # "ipopt_presolve"} \cup {<<"ipopt_presolve", "True">>}
    /\ Goto
    /\ UNCHANGED <<script, env, fault, calls, data, tuningTn, w0, ctrl, heap, xinit, loopVars>>

\* tuningTn = {'H': [...], 'q': q}
MakeTuning ==
    /\ At(138, 171)
    /\ tuningTn' = {<<"H", IF script = "unicycle" THEN "[diag(1,1,1,1,1)]*N"
                                                  ELSE "[diag(10,10,0.1,0.1)]">>,
                    <<"q", "q">>}
    /\ Goto
    /\ UNCHANGED <<script, env, fault, calls, data, opts, w0, ctrl, heap, xinit, loopVars>>

\* a mutated call that hands the custom tuning to every variant
CreateArgsTuneAll(s, c, o, tn) ==
    [N |-> Horizon(s), opts |-> IF s = "unicycle" THEN o ELSE {}, tuning |-> tn]

\* the arguments of the create_mpc call for variant c
CreateArgs(s, c, o, tn) ==
    [N |-> Horizon(s),
     opts |-> IF s = "unicycle" THEN o ELSE {},
     tuning |-> IF c = "tracking" THEN tn ELSE {}]

\* the controller create_mpc returns: a new object built from its arguments
NewCtrl(args, n) ==
    [id |-> n, N |-> args.N, opts |-> args.opts, tuning |-> args.tuning, nsteps |-> 0]

\* ctrlE / ctrlTn / ctrlTt = tuner.create_mpc(variant, N, ...)
CreateMpc(c) ==
    /\ pc = CreateLine(script, c)
    /\ ctrl' = [ctrl EXCEPT ![c] = NewCtrl(CreateArgs(script, c, opts, tuningTn),
                                           calls["create_mpc"] + 1)]
    /\ Goto /\ Called({"create_mpc"})
    /\ UNCHANGED <<script, env, fault, data, opts, tuningTn, w0, heap, xinit, loopVars>>

\* objective(x, u, data), an argument of check_equivalence
EquivObjective ==
    /\ At(0 - 1, 178)
    /\ Goto /\ Called({"objective"})
    /\ UNCHANGED <<script, env, fault, setupVars, heap, xinit, loopVars>>

\* log = clt.check_equivalence(ctrls, ..., sys['h'], wsol['x',0], ca.vertcat(0.0, 10.0), alpha)
CheckEquivalence ==
    /\ At(0 - 1, Pos(178, 1))
    /\ Goto /\ Called({"check_equivalence"})
    /\ UNCHANGED <<script, env, fault, setupVars, heap, xinit, loopVars>>

-----------------------------------------------------------------------------
(* The closed loop of the unicycle script *)

\* dist_z, Nstep, and the six empty logs
InitLogs ==
    /\ At(145, 0 - 1)
    /\ uLog' = [c \in C |-> <<>>]
    /\ lLog' = [c \in C |-> <<>>]
    /\ Goto
    /\ UNCHANGED <<script, env, fault, calls, setupVars, heap, xinit,
                   k, dist, lOpt, tgrid, qry, rec, adv, applied, it, fig>>

\* a mutated initialisation that binds the name to the vector x_initE is bound to
XInitShared(c) ==
    /\ script = "unicycle" /\ pc = XInitLine(c)
    /\ LET r == IF c = "economic" THEN GetItem(heap, 0)
                ELSE [addr |-> xinit["economic"], heap |-> heap]
       IN  /\ heap' = r.heap
           /\ xinit' = [xinit EXCEPT ![c] = r.addr]
    /\ Goto
    /\ UNCHANGED <<script, env, fault, calls, setupVars, loopVars>>

\* x_initE / x_initTn / x_initTt = wsol['x',0]
XInit(c) ==
    /\ script = "unicycle" /\ pc = XInitLine(c)
    /\ LET r == GetItem(heap, 0)
       IN  /\ heap' = r.heap
           /\ xinit' = [xinit EXCEPT ![c] = r.addr]
    /\ Goto
    /\ UNCHANGED <<script, env, fault, calls, setupVars, loopVars>>

\* plant_sim = dynamics(x, u, data, h = T/N)
MakePlant ==
    /\ At(155, 0 - 1)
    /\ Goto /\ Called({"dynamics"})
    /\ UNCHANGED <<script, env, fault, setupVars, heap, xinit, loopVars>>

\* Nsim = 250; tgrid = [T/N*i for i in range(Nsim)], in units of T/N
MakeGrid ==
    /\ At(157, 0 - 1)
    /\ tgrid' = [i \in 1..Nsim |-> i - 1]
    /\ Goto
    /\ UNCHANGED <<script, env, fault, calls, setupVars, heap, xinit,
                   k, dist, uLog, lLog, lOpt, qry, rec, adv, applied, it, fig>>

\* a mutated loop statement that runs one iteration too many
LoopHeadOneMore ==
    /\ At(UniLoop, 0 - 1)
    /\ IF k < Nsim
       THEN k' = k + 1 /\ pc' = UniBody[1]
       ELSE k' = k /\ pc' = UniPlot
    /\ UNCHANGED <<script, env, fault, calls, setupVars, heap, xinit,
                   dist, uLog, lLog, lOpt, tgrid, qry, rec, adv, applied, it, fig>>

\* for k in range(Nsim):
LoopHead ==
    /\ At(UniLoop, 0 - 1)
    /\ IF k + 1 < Nsim
       THEN k' = k + 1 /\ pc' = UniBody[1]
       ELSE k' = k /\ pc' = UniPlot
    /\ UNCHANGED <<script, env, fault, calls, setupVars, heap, xinit,
                   dist, uLog, lLog, lOpt, tgrid, qry, rec, adv, applied, it, fig>>

\* if k in Nstep:
IfDisturbed ==
    /\ At(161, 0 - 1)
    /\ pc' = IF k \in Range(Nstep) THEN After(script, 161) ELSE After(script, 165)
    /\ UNCHANGED <<script, env, fault, calls, setupVars, heap, xinit, loopVars>>

\* dist = dist_z[Nstep.index(k)]
PickDist ==
    /\ At(162, 0 - 1)
    /\ dist' = dist_z[IndexOf(Nstep, k)]
    /\ Goto
    /\ UNCHANGED <<script, env, fault, calls, setupVars, heap, xinit,
                   k, uLog, lLog, lOpt, tgrid, qry, rec, adv, applied, it, fig>>

\* a mutated perturbation that hits component 1 (y)
PerturbY(x, d) == [x EXCEPT ![2] = @ + d]

\* x[0] += d on a vector: component 0 (z) grows by d, in place
Perturb(x, d) == [x EXCEPT ![1] = @ + d]

\* x_initE[0] += dist   (and the same for Tn, Tt)
Disturb(c) ==
    /\ script = "unicycle" /\ pc = DistLine(c)
    /\ heap' = [heap EXCEPT ![xinit[c]] = Perturb(@, dist)]
    /\ applied' = [applied EXCEPT ![c] = Append(@, <<k, dist>>)]
    /\ Goto
    /\ UNCHANGED <<script, env, fault, calls, setupVars, xinit,
                   k, dist, uLog, lLog, lOpt, tgrid, qry, rec, adv, it, fig>>

\* uE.append(ctrlE.step(x_initE))   (and the same for Tn, Tt)
StepCtrl(c) ==
    /\ script = "unicycle" /\ pc = StepLine(c)
    /\ LET u == StepResp(c, env, ctrl[c].nsteps, Val(c))
       IN  /\ uLog' = [uLog EXCEPT ![c] = Append(@, u)]
           /\ qry' = [qry EXCEPT ![c] = [kk |-> k, x |-> Val(c), u |-> u, y |-> u]]
    /\ ctrl' = [ctrl EXCEPT ![c].nsteps = @ + 1]
    /\ Goto /\ Called({"step"})
    /\ UNCHANGED <<script, env, fault, data, opts, tuningTn, w0, heap, xinit,
                   k, dist, lLog, lOpt, tgrid, rec, adv, applied, it, fig>>

\* lOpt = tuner.l(wsol['x', k%N], wsol['u',k%N])
CostOpt ==
    /\ At(171, 0 - 1)
    /\ lOpt' = l(heap[WsolAddr(RefIndex(k))], URef(env.ocp, RefIndex(k)))
    /\ Goto /\ Called({"l"})
    /\ UNCHANGED <<script, env, fault, setupVars, heap, xinit,
                   k, dist, uLog, lLog, tgrid, qry, rec, adv, applied, it, fig>>

\* the call tuner.l(x_initE, uE[-1]) of line 172   (and the same for Tn, Tt)
CallCost(c) ==
    /\ script = "unicycle" /\ pc = CostLine(c)
    /\ rec' = [rec EXCEPT ![c] = [kk |-> k, x |-> Val(c), u |-> Last(uLog[c]),
                                  y |-> l(Val(c), Last(uLog[c]))]]
    /\ Goto /\ Called({"l"})
    /\ UNCHANGED <<script, env, fault, setupVars, heap, xinit,
                   k, dist, uLog, lLog, lOpt, tgrid, qry, adv, applied, it, fig>>

\* lE.append(<the value tuner.l returned> - lOpt)   (and the same for Tn, Tt)
RecordCost(c) ==
    /\ script = "unicycle" /\ pc = Pos(CostLine(c), 1)
    /\ lLog' = [lLog EXCEPT ![c] = Append(@, rec[c].y - lOpt)]
    /\ Goto
    /\ UNCHANGED <<script, env, fault, calls, setupVars, heap, xinit,
                   k, dist, uLog, lOpt, tgrid, qry, rec, adv, applied, it, fig>>

\* x_initE = plant_sim(x0 = x_initE, p = uE[-1])['xf']   (and the same for Tn, Tt):
\* the name is bound to a new vector; the old one is dropped with its last reference
Advance(c) ==
    /\ script = "unicycle" /\ pc = SimLine(c)
    /\ \E xf \in {plant_sim(Val(c), Last(uLog[c]))} :
       LET a == FreshCell(heap)
           old == xinit[c]
           dropped == old \in Dyn /\ \A c2 \in C \ {c} : xinit[c2] # old
       IN  /\ heap' = [heap EXCEPT ![a] = xf,
                                   ![old] = IF dropped THEN Free ELSE @]
           /\ xinit' = [xinit EXCEPT ![c] = a]
           /\ adv' = [adv EXCEPT ![c] = [kk |-> k, x |-> Val(c), u |-> Last(uLog[c]),
                                         y |-> xf]]
    /\ Goto /\ Called({"plant_sim"})
    /\ UNCHANGED <<script, env, fault, setupVars,
                   k, dist, uLog, lLog, lOpt, tgrid, qry, rec, applied, it, fig>>

-----------------------------------------------------------------------------
(* The plots *)

\* iterations of the plotting loop: range(nu) in unicycle, the three
\* controllers times range(nu) in evaporation
PlotIters(s) == IF s = "unicycle" THEN nu(s) ELSE Len(Variants) * nu(s)

\* for i in range(nu):   /   for name in list(ctrls.keys()): for i in range(nu):
PlotLoop ==
    /\ At(UniPlot, EvapPlot)
    /\ IF it < PlotIters(script)
       THEN it' = it + 1 /\ pc' = (IF script = "unicycle" THEN UniPlotBody[1]
                                                          ELSE EvapPlotBody[1])
       ELSE it' = 0 /\ pc' = (IF script = "unicycle" THEN UniTail[1] ELSE EvapShow)
    /\ UNCHANGED <<script, env, fault, calls, setupVars, heap, xinit,
                   k, dist, uLog, lLog, lOpt, tgrid, qry, rec, adv, applied, fig>>

\* plt.figure, plt.legend, plt.title: a pyplot call that draws no series
Pyplot ==
    /\ \/ script = "unicycle" /\ pc \in {183, 187, 188, 190, 194, 195}
       \/ script = "evaporation" /\ pc \in {183, 185}
    /\ Goto /\ Called({"plt"})
    /\ UNCHANGED <<script, env, fault, setupVars, heap, xinit, loopVars>>

\* plt.step(tgrid, [uE[j][i] - wsol['u',j%N][i] for j in range(len(uE))])
PlotControl(c) ==
    /\ script = "unicycle" /\ pc = PlotULine(c)
    /\ fig' = fig \cup {<<it - 1, c, [j \in 1..Len(uLog[c]) |->
                                        uLog[c][j] - URef(env.ocp, RefIndex(j - 1))]>>}
    /\ Goto /\ Called({"plt"})
    /\ UNCHANGED <<script, env, fault, setupVars, heap, xinit,
                   k, dist, uLog, lLog, lOpt, tgrid, qry, rec, adv, applied, it>>

\* plt.step(tgrid, lE)   (and the same for Tn, Tt), on figure nu
PlotCost(c) ==
    /\ script = "unicycle" /\ pc = PlotLLine(c)
    /\ fig' = fig \cup {<<nu(script), c, lLog[c]>>}
    /\ Goto /\ Called({"plt"})
    /\ UNCHANGED <<script, env, fault, setupVars, heap, xinit,
                   k, dist, uLog, lLog, lOpt, tgrid, qry, rec, adv, applied, it>>

\* plt.plot(alpha, [log[j]['u'][name][0][i] for j in range(len(alpha))])
PlotEquiv ==
    /\ At(0 - 1, 184)
    /\ LET name == Variants[((it - 1) \div nu(script)) + 1]
           i == (it - 1) % nu(script)
       IN  fig' = fig \cup {<<i, name, [j \in 1..Len(alpha) |-> EquivLog(env, name, j, i)]>>}
    /\ Goto /\ Called({"plt"})
    /\ UNCHANGED <<script, env, fault, setupVars, heap, xinit,
                   k, dist, uLog, lLog, lOpt, tgrid, qry, rec, adv, applied, it>>

\* plt.show()
Show ==
    /\ At(197, EvapShow)
    /\ Goto /\ Called({"plt"})
    /\ UNCHANGED <<script, env, fault, setupVars, heap, xinit, loopVars>>

\* a call into library code raises
Raise ==
    /\ pc # 0
    /\ \E f \in CallAt(script, pc) : fault' = f
    /\ pc' = OnFault(pc)
    /\ UNCHANGED <<script, env, calls, setupVars, heap, xinit, loopVars>>

Next ==
    \/ Raise
    \/ Vars \/ Shapes \/ ProblemData \/ IntermediateVars \/ IntermediateReturn
    \/ TunerDynamics \/ TunerObjective \/ TunerConstraints \/ MakeTuner
    \/ GuessTables \/ InitialGuess \/ GuessLoop \/ GuessState \/ GuessSetState
    \/ GuessControl \/ GuessVector \/ SolveOcp \/ Convexify \/ GetSensitivities
    \/ TunerSys \/ MpcOptions \/ Presolve \/ MakeTuning
    \/ \E c \in C : CreateMpc(c)
    \/ EquivObjective \/ CheckEquivalence
    \/ InitLogs
    \/ \E c \in C : XInit(c)
    \/ MakePlant \/ MakeGrid \/ LoopHead \/ IfDisturbed \/ PickDist
    \/ \E c \in C : Disturb(c)
    \/ \E c \in C : StepCtrl(c)
    \/ CostOpt
    \/ \E c \in C : CallCost(c)
    \/ \E c \in C : RecordCost(c)
    \/ \E c \in C : Advance(c)
    \/ PlotLoop \/ Pyplot
    \/ \E c \in C : PlotControl(c)
    \/ \E c \in C : PlotCost(c)
    \/ PlotEquiv \/ Show

Spec == Init /\ [][Next]_vars

\* the script runs on: the interpreter executes the next statement whenever there is one
LiveSpec == Spec /\ WF_vars(Next)

-----------------------------------------------------------------------------
(* Vocabulary of the properties *)

Uni == script = "unicycle"
Bound(c) == xinit[c] # 0
\* the call recorded in r for controller c was made in the current iteration
Now(r, c) == k >= 0 /\ r[c].kk = k
\* the cost deviation of the current iteration is appended to c's log
Recorded(c) == k >= 0 /\ Len(lLog[c]) = k + 1
\* the perturbation the schedule prescribes for step j (0: none)
Amount(j) ==
    IF j = 0 \/ j = 34 THEN Unit \div 10
    ELSE IF j = 69 \/ j = 105 THEN Unit \div 2 ELSE 0
\* x with a added to component 0 and nothing else changed
PlusZ(x, a) == [i \in DOMAIN x |-> IF i = 1 THEN x[i] + a ELSE x[i]]
\* the perturbations the schedule prescribes up to and including step j
Sched(j) ==
    LET due == {i \in 1..4 : Nstep[i] <= j}
    IN  [i \in 1..Cardinality(due) |-> <<Nstep[i], dist_z[i]>>]
\* the unicycle script is past its simulation loop and no call has raised
PastLoop ==
    \/ pc \in {UniPlot} \cup Range(UniPlotBody) \cup Range(UniTail)
    \/ pc = 0 /\ fault = ""

-----------------------------------------------------------------------------
(* C1 *)

\* C1: within one step of the unicycle loop the phases come in the order
\* disturbance, controller queries, cost recording, plant advance, for all
\* three controllers: a query sees the tracked state as it is before the
\* advance and after every scheduled perturbation, a cost is evaluated only when
\* all three queries are made and from the state and control of the query, and
\* a tracked state is advanced only when all three costs are recorded, to the
\* plant's output for its own queried state and own control.
C1_PhaseOrder ==
    Uni =>
      /\ \A c \in C :
           /\ (Now(qry, c) /\ ~Now(adv, c)) => qry[c].x = Val(c)
           /\ Now(rec, c) =>
                /\ Now(qry, c)
                /\ rec[c].x = qry[c].x /\ rec[c].u = qry[c].y
                /\ rec[c].u = Last(uLog[c])
           /\ Recorded(c) => Now(rec, c)
           /\ Now(adv, c) =>
                /\ Recorded(c)
                /\ adv[c].x = qry[c].x /\ adv[c].u = qry[c].y
                /\ Val(c) = adv[c].y
      /\ (\E c \in C : Now(qry, c)) => \A c \in C : applied[c] = Sched(k)
      /\ (\E c \in C : Now(rec, c)) => \A c \in C : Now(qry, c)
      /\ (\E c \in C : Now(adv, c)) => \A c \in C : Recorded(c)

\* a step with a scheduled disturbance in which the economic state is already
\* advanced while the other two are recorded but not yet advanced
C1_Witness ==
    /\ Uni /\ k = 34
    /\ Now(adv, "economic") /\ Recorded("tuned") /\ ~Now(adv, "tracking")
    /\ pc = SimLine("tracking")
    /\ Val("economic") = plant_sim(qry["economic"].x, qry["economic"].y)

-----------------------------------------------------------------------------
(* C2 *)

AllLogs(n) == \A c \in C : Len(uLog[c]) = n /\ Len(lLog[c]) = n

\* the counting part of C2, as a predicate on states
C2_LoopLength ==
    Uni =>
      /\ k < Nsim
      /\ pc = UniBody[1] =>
           /\ k >= 0 /\ AllLogs(k)
           /\ \A c \in C : ctrl[c].nsteps = k
      /\ PastLoop =>
           /\ k = Nsim - 1 /\ AllLogs(Nsim) /\ Len(tgrid) = Nsim
           /\ \A c \in C : ctrl[c].nsteps = Nsim
           /\ calls["step"] = 3 * Nsim
      /\ (pc = 0 \/ ENABLED Next)

\* C2: the unicycle loop terminates after exactly Nsim = 250 iterations with
\* Nsim entries in each of the six logs: the script always comes to its end, and
\* along the way the loop variable stays below Nsim, every iteration k starts
\* with k entries in every log and k step calls per controller, and the
\* statements after the loop are reached only with Nsim entries in every log,
\* the length of tgrid.
C2_Terminates == []C2_LoopLength /\ <>(pc = 0)

\* the unicycle script has left the loop, drawn its six series and shown them
C2_Witness ==
    /\ Uni /\ pc = 0 /\ fault = "" /\ Cardinality(fig) = 6
    /\ \E s \in fig : s[1] = 1 /\ s[2] = "tuned" /\ Len(s[3]) = Nsim
    /\ \E s \in fig : s[1] = 0 /\ s[2] = "economic" /\ Len(s[3]) = Nsim

-----------------------------------------------------------------------------
(* C3 *)

\* C3 as stated: once the problem-data function has returned, the mapping
\* never changes again.
C3_ReadOnly == [][data # <<>> => data' = data]_vars

\* C3 as amended: once the problem-data function has returned, no entry it
\* created is ever changed or removed; the only later changes are those of the
\* one run of intermediate_vars in the evaporation script, each of which adds
\* one of its ten derived entries and leaves every entry made before as it is;
\* the unicycle mapping never changes.
C3_ConstantsKept ==
    [][data # <<>> =>
         /\ \A key \in DOMAIN data : key \in DOMAIN data' /\ data'[key] = data[key]
         /\ data' # data =>
              /\ script = "evaporation" /\ pc \in IvFirst..IvLast
              /\ calls["intermediate_vars"] = 0
              /\ \E key \in IntermediateKeys \ DOMAIN data :
                     DOMAIN data' = DOMAIN data \cup {key}]_vars

\* the evaporation script after intermediate_vars: nineteen constants and ten
\* derived entries
C3_Witness ==
    /\ script = "evaporation" /\ calls["intermediate_vars"] = 1
    /\ Cardinality(DOMAIN data) = 29 /\ data["F1"] = "10.0" /\ data["F2"] = "F1 - F4"

-----------------------------------------------------------------------------
(* C5 *)

effects == <<calls, data, opts, tuningTn, w0, ctrl, heap, xinit, k, dist, uLog, lLog,
             lOpt, tgrid, qry, rec, adv, applied, it, fig>>

\* C5: no failure is handled: a call that raises has no effect of its own, the
\* script is over as soon as an exception is raised, and nothing (no step, no
\* log append, no plant advance, no retry) is executed afterwards.
C5_FaultStops ==
    /\ [](fault # "" => pc = 0)
    /\ [][(fault' # fault \/ fault # "") => UNCHANGED effects]_vars

\* the tracking controller's step raised in step 40, after the economic
\* controller's step of that iteration had been logged
C5_Witness ==
    /\ Uni /\ fault = "step" /\ pc = 0 /\ k = 40
    /\ Len(uLog["economic"]) = 41 /\ Len(uLog["tracking"]) = 40

-----------------------------------------------------------------------------
(* C6 *)

Made(c) == ctrl[c].id # 0
\* constructions of symbolic variables, dynamics, objective and constraints so far
Constructions ==
    calls["vars"] + calls["dynamics"] + calls["objective"] + calls["constraints"]
\* the number of such constructions each script makes in all
AllConstructions == IF Uni THEN 4 ELSE 5

\* the order both scripts keep from the tuner on
TunerOnwards ==
    /\ calls["Tuner"] <= 1 /\ calls["solve_ocp"] <= 1
    /\ calls["convexify"] <= 1 /\ calls["get_sensitivities"] <= 1
    /\ calls["solve_ocp"] > 0 => calls["Tuner"] = 1
    /\ calls["convexify"] > 0 => calls["solve_ocp"] = 1
    /\ calls["create_mpc"] > 0 => calls["convexify"] = 1
    /\ Made("tracking") => calls["get_sensitivities"] = 1
    /\ (calls["step"] > 0 \/ calls["check_equivalence"] > 0 \/ k >= 0) =>
           \A c \in C : Made(c)
    /\ calls["create_mpc"] = Cardinality({c \in C : Made(c)})

\* C6 as stated: the phases run strictly in the order problem data, symbolic
\* construction, tuning service, controller construction, closed loop: nothing
\* is constructed before the problem data exist, every construction is made
\* before the tuning service is called, and the order from the tuner on holds.
C6_StrictPhases ==
    /\ Constructions > 0 => calls["problem_data"] > 0
    /\ calls["solve_ocp"] > 0 => Constructions = AllConstructions
    /\ TunerOnwards

\* C6 as amended: the symbolic variables are constructed first and the problem
\* data after them; dynamics, objective and constraints are constructed only
\* when the problem data are complete, and the tuner only from them; one more
\* construction (the plant's dynamics in unicycle, the objective handed to
\* check_equivalence in evaporation) follows the creation of the three
\* controllers; the order from the tuner on is as stated.
C6_Phases ==
    /\ calls["problem_data"] > 0 => calls["vars"] = 1
    /\ (calls["dynamics"] + calls["objective"] + calls["constraints"] > 0) =>
           /\ calls["problem_data"] = 1
           /\ ~Uni => calls["intermediate_vars"] = 1
    /\ calls["Tuner"] > 0 =>
           /\ calls["dynamics"] >= 1 /\ calls["objective"] >= 1
           /\ ~Uni => calls["constraints"] = 1
    /\ calls["solve_ocp"] = 0 => Constructions < AllConstructions
    /\ Constructions = AllConstructions => \A c \in C : Made(c)
    /\ TunerOnwards

\* the unicycle loop has begun: everything is constructed, tuned and created
C6_Witness ==
    /\ Uni /\ k = 0 /\ calls["step"] = 1 /\ calls["dynamics"] = 2
    /\ calls["convexify"] = 1 /\ calls["create_mpc"] = 3

-----------------------------------------------------------------------------
(* C7 *)

\* the options of the unicycle script when its controllers are created
FullOpts == {<<"p_operator", "x[0:3]">>, <<"ipopt_presolve", "True">>}

\* C7: the controllers of a script are separate objects with the same horizon
\* (30 in unicycle, 200 in evaporation) and, in unicycle, the same options,
\* with p_operator and ipopt_presolve = True both set from the first
\* controller on; only the tracking controller carries a custom tuning.
C7_SameSetup ==
    \A c \in C : Made(c) =>
      /\ calls["Tuner"] = 1
      /\ ctrl[c].N = (IF Uni THEN 30 ELSE 200)
      /\ ctrl[c].opts = (IF Uni THEN FullOpts ELSE {})
      /\ (ctrl[c].tuning # {}) <=> (c = "tracking")
      /\ c = "tracking" => {p[1] : p \in ctrl[c].tuning} = {"H", "q"}
      /\ \A c2 \in C \ {c} : Made(c2) =>
           /\ ctrl[c2].id # ctrl[c].id
           /\ ctrl[c2].N = ctrl[c].N /\ ctrl[c2].opts = ctrl[c].opts

\* all three controllers of a script exist
C7_Witness == (\A c \in C : Made(c)) /\ opts = FullOpts /\ tuningTn # {}

-----------------------------------------------------------------------------
(* C8 *)

\* the state controller c is queried with at step k, as the schedule prescribes
\* it: the plant's output of the previous step (the solution's first stage at
\* step 0) with the scheduled amount, if any, added to component 0
Scheduled(c) ==
    PlusZ(IF k = 0 THEN XRef(env.ocp, 0) ELSE adv[c].y, Amount(k))

\* C8: the disturbance follows the schedule: by the time a controller is
\* queried at step k each tracked state has received exactly the perturbations
\* scheduled up to k (steps 0, 34, 69, 105 with 0.1, 0.1, 0.5, 0.5), once each
\* and the same for the three controllers; before the disturbance block of
\* step k it has received those scheduled before k; and the state a controller
\* is queried with is the plant's output with the scheduled amount added to
\* component 0 only, hence the plant's output itself at unscheduled steps.
C8_Schedule ==
    Uni =>
      \A c \in C :
        /\ k >= 0 => applied[c] \in {Sched(k - 1), Sched(k)}
        /\ (pc = UniBody[1] \/ pc = UniLoop) /\ k >= 0 =>
               applied[c] = Sched(IF pc = UniLoop THEN k ELSE k - 1)
        /\ (\E c2 \in C : Now(qry, c2)) => applied[c] = Sched(k)
        /\ (Now(qry, c) /\ (k = 0 \/ adv[c].kk = k - 1)) => qry[c].x = Scheduled(c)

\* the tuned controller has just been queried at step 69 with a state whose z
\* carries the 0.5 perturbation
C8_Witness ==
    /\ Uni /\ k = 69 /\ Now(qry, "tuned") /\ ~Now(rec, "economic")
    /\ qry["tuned"].x[1] = adv["tuned"].y[1] + 500000
    /\ qry["tuned"].x[2] = adv["tuned"].y[2]
    /\ Len(applied["tuned"]) = 3

-----------------------------------------------------------------------------
(* C9 *)

\* C9: the cost deviation recorded for controller c at step k is the stage cost
\* of c's queried (disturbed, not yet advanced) state and the control c
\* returned at step k, minus the stage cost of the periodic reference at stage
\* k mod N, N = 30; that stage lies in 0..N-1 and the reference cost is the
\* same for the three controllers.
C9_CostDeviation ==
    Uni =>
      \A c \in C : Recorded(c) =>
        /\ Len(uLog[c]) = k + 1
        /\ k % 30 \in 0..29
        /\ lOpt = l(XRef(env.ocp, k % 30), URef(env.ocp, k % 30))
        /\ lLog[c][k + 1] =
             l(qry[c].x, uLog[c][k + 1])
               - l(XRef(env.ocp, k % 30), URef(env.ocp, k % 30))

\* the cost of the tracking controller has been recorded at step 59, whose
\* reference stage is 29
C9_Witness ==
    /\ Uni /\ k = 59 /\ Recorded("tracking") /\ ~Recorded("tuned")
    /\ lOpt = l(XRef(env.ocp, 29), URef(env.ocp, 29))

-----------------------------------------------------------------------------
(* C10 *)

\* C10, given that wsol['x',0] returns a copy (GetItem): the three closed
\* loops are isolated from each other and from the reference, that is, the
\* script itself binds no tracked state to another name's vector or to a
\* stage of wsol: the three tracked states are three different vectors, none of
\* them a stage of wsol; the stages of wsol keep the values solve_ocp returned;
\* during step 0 each tracked state carries exactly one 0.1 perturbation; and
\* the reference cost of every step with k mod N = 0 is that of the
\* undisturbed first stage.
C10_Isolated ==
    Uni =>
      /\ calls["solve_ocp"] > 0 =>
           \A i \in 0..(N - 1) : heap[WsolAddr(i)] = XRef(env.ocp, i)
      /\ \A c \in C : Bound(c) =>
           /\ xinit[c] \in Dyn
           /\ \A c2 \in C \ {c} : xinit[c2] # xinit[c]
      /\ \A c \in C : (k = 0 /\ applied[c] # <<>> /\ ~Now(adv, c)) =>
           /\ applied[c] = << <<0, 100000>> >>
           /\ Val(c) = PlusZ(XRef(env.ocp, 0), 100000)
      /\ (k >= 0 /\ k % 30 = 0 /\ \E c \in C : Now(rec, c)) =>
           lOpt = l(XRef(env.ocp, 0), URef(env.ocp, 0))

\* step 30: the reference cost is again taken from the first stage of wsol,
\* long after the three tracked states were perturbed
C10_Witness ==
    /\ Uni /\ k = 30 /\ Now(rec, "economic")
    /\ \A c \in C : Len(applied[c]) = 1
    /\ heap[WsolAddr(0)] = XRef(env.ocp, 0)

====
